---- MODULE Spec2Model ----
(***************************************************************************)
(* Model of samcli/cli/types.py: the click parameter types that decode     *)
(* command line text into key/value mappings (CfnTags,                     *)
(* CfnParameterOverridesType, CfnMetadataType, SigningProfilesOptionType). *)
(*                                                                         *)
(* A Python str is a sequence of one-character strings.  A Python dict is  *)
(* a sequence of <<key, value>> pairs with distinct keys in insertion      *)
(* order (dicts iterate in insertion order; assigning to an existing key   *)
(* keeps its position).                                                    *)
(***************************************************************************)
EXTENDS Integers, Sequences, FiniteSets, TLC

SP == " "
DQ == "\""
SQ == "'"
BS == "\\"
EQ == "="
US == "_"

Letters ==
    {"a","b","c","d","e","f","g","h","i","j","k","l","m","n","o","p","q","r",
     "s","t","u","v","w","x","y","z","A","B","C","D","E","F","G","H","I","J",
     "K","L","M","N","O","P","Q","R","S","T","U","V","W","X","Y","Z"}

Digits ==
    {"0","1","2","3","4","5","6","7","8","9"}

(***************************************************************************)
(* str methods                                                             *)
(***************************************************************************)

\* str.count(c) for a one-character c
StrCount(s, c) ==
    Cardinality({i \in 1..Len(s) : s[i] = c})

\* position of the first c in s, 0 when there is none
StrFind(s, c) ==
    IF \E i \in 1..Len(s) : s[i] = c
    THEN CHOOSE i \in 1..Len(s) : s[i] = c /\ \A j \in 1..(i-1) : s[j] # c
    ELSE 0

RECURSIVE StrSplit(_, _)
\* str.split(c) for a one-character c: every c separates, empty pieces kept
StrSplit(s, c) ==
    LET i == StrFind(s, c)
    IN  IF i = 0 THEN <<s>>
        ELSE <<SubSeq(s, 1, i-1)>> \o StrSplit(SubSeq(s, i+1, Len(s)), c)

\* str.split() without argument: runs of whitespace separate, no empty pieces
StrSplitWhitespace(s) ==
    SelectSeq(StrSplit(s, SP), LAMBDA piece : piece # <<>>)

\* str.strip(): leading and trailing whitespace removed
StrStrip(s) ==
    LET keep == {i \in 1..Len(s) : s[i] # SP}
    IN  IF keep = {} THEN <<>>
        ELSE SubSeq(s, CHOOSE i \in keep : \A j \in keep : i <= j,
                       CHOOSE i \in keep : \A j \in keep : j <= i)

RECURSIVE StrReplace(_, _, _)
\* str.replace(old, new) for a non-empty old: leftmost non-overlapping occurrences
StrReplace(s, old, new) ==
    IF Len(s) < Len(old) \/ old = <<>> THEN s
    ELSE IF SubSeq(s, 1, Len(old)) = old
         THEN new \o StrReplace(SubSeq(s, Len(old)+1, Len(s)), old, new)
         ELSE <<s[1]>> \o StrReplace(Tail(s), old, new)

(***************************************************************************)
(* dict operations                                                         *)
(***************************************************************************)

DictHas(d, k) ==
    \E i \in 1..Len(d) : d[i][1] = k

DictGet(d, k) ==
    d[CHOOSE i \in 1..Len(d) : d[i][1] = k][2]

\* d[k] = v
DictSet(d, k, v) ==
    IF DictHas(d, k)
    THEN [i \in 1..Len(d) |-> IF d[i][1] = k THEN <<k, v>> ELSE d[i]]
    ELSE Append(d, <<k, v>>)

RECURSIVE DictUpdate(_, _)
\* {**d, **e} and d.update(e)
DictUpdate(d, e) ==
    IF e = <<>> THEN d
    ELSE DictUpdate(DictSet(d, e[1][1], e[1][2]), Tail(e))

DictKeys(d) ==
    {d[i][1] : i \in 1..Len(d)}

(***************************************************************************)
(* _unquote_wrapped_quotes                                                 *)
(***************************************************************************)

StripWrapCond(value) ==
    /\ value # <<>>
    /\ value[1] = value[Len(value)]
    /\ value[1] \in {DQ, SQ}
    /\ value[Len(value)] \in {DQ, SQ}

StripWrappingQuotes(value) ==
    IF StripWrapCond(value) THEN SubSeq(value, 2, Len(value) - 1) ELSE value

Unescape(value) ==
    StrReplace(StrReplace(StrReplace(value, <<BS, SP>>, <<SP>>),
                          <<BS, DQ>>, <<DQ>>),
               <<BS, SQ>>, <<SQ>>)

_unquote_wrapped_quotes(value) ==
    Unescape(StripWrappingQuotes(value))

(***************************************************************************)
(* Regular expressions.  _generate_match_regex builds a token pattern      *)
(*   "(?:\\X|[^"\\]+)*" | '(?:\\X|[^'\\]+)*' | (?:\\X|[^D"\\]+)+           *)
(* from X (match_pattern) and D (delim); the third alternative exists only *)
(* when a delimiter is given.  A pattern is kept as a record and matched   *)
(* as re matches it: alternatives in order, repetitions greedy, and a      *)
(* shorter repetition tried when what follows fails.                       *)
(***************************************************************************)

\* TAG_REGEX, a character class: A-Z a-z 0-9 " _ : . / = and the range + to @
TAG_REGEX ==
    Letters \cup Digits \cup
    {DQ, "_", ":", ".", "/", "=", "+", ",", "-", ";", "<", ">", "?", "@"}

\* PARAM_AND_METADATA_KEY_REGEX, the class of ([A-Za-z0-9\"\']+)
PARAM_AND_METADATA_KEY_REGEX ==
    Letters \cup Digits \cup {DQ, SQ}

\* the class [A-Za-z0-9\"] of SigningProfilesOptionType.pattern
SigningKeyClass ==
    Letters \cup Digits \cup {DQ}

\* whether character c matches match_pattern: "." is any character but a
\* newline, "tag" is TAG_REGEX
MatchPatternHas(match_pattern, c) ==
    IF match_pattern = "." THEN c # "\n" ELSE c \in TAG_REGEX

_generate_match_regex(match_pattern, delim) ==
    [match_pattern |-> match_pattern, delim |-> delim, single |-> TRUE]

RECURSIVE QuotedBodyEnd(_, _, _, _)
\* the closing quote q of "(?:\\X|[^q\\]+)*q" scanning from j, 0 when none
QuotedBodyEnd(s, j, q, match_pattern) ==
    IF j > Len(s) THEN 0
    ELSE IF s[j] = q THEN j
    ELSE IF s[j] = BS
         THEN IF j + 1 <= Len(s) /\ MatchPatternHas(match_pattern, s[j+1])
              THEN QuotedBodyEnd(s, j + 2, q, match_pattern)
              ELSE 0
         ELSE QuotedBodyEnd(s, j + 1, q, match_pattern)

\* last position of a span quoted by q and starting at i, 0 when none
QuotedEnd(s, i, q, match_pattern) ==
    IF i <= Len(s) /\ s[i] = q
    THEN QuotedBodyEnd(s, i + 1, q, match_pattern)
    ELSE 0

RECURSIVE BareEnds(_, _, _)
\* every position at which (?:\\X|[^D"\\]+)+ starting at j can end
BareEnds(s, j, tok) ==
    IF j > Len(s) THEN {}
    ELSE IF s[j] = BS
         THEN IF j + 1 <= Len(s) /\ MatchPatternHas(tok.match_pattern, s[j+1])
              THEN {j + 1} \cup BareEnds(s, j + 2, tok)
              ELSE {}
    ELSE IF s[j] \in {tok.delim, DQ} THEN {}
    ELSE {j} \cup BareEnds(s, j + 1, tok)

RECURSIVE ClassRunEnds(_, _, _)
\* every position at which [class]+ starting at j can end
ClassRunEnds(s, j, class) ==
    IF j > Len(s) \/ s[j] \notin class THEN {}
    ELSE {j} \cup ClassRunEnds(s, j + 1, class)

SetMax(S) ==
    CHOOSE m \in S : \A n \in S : n <= m

\* the last position of a token that ends the pattern, 0 when none matches:
\* the first alternative that matches, at its longest
TokenEnd(s, i, tok) ==
    LET dq == QuotedEnd(s, i, DQ, tok.match_pattern)
        sq == IF tok.single THEN QuotedEnd(s, i, SQ, tok.match_pattern) ELSE 0
        bare == IF tok.delim = "" THEN {} ELSE BareEnds(s, i, tok)
    IN  IF dq # 0 THEN dq
        ELSE IF sq # 0 THEN sq
        ELSE IF bare # {} THEN SetMax(bare)
        ELSE 0

\* whether the literal text lit is at position i of s
LiteralAt(s, i, lit) ==
    /\ i + Len(lit) - 1 <= Len(s)
    /\ \A k \in 1..Len(lit) : s[i + k - 1] = lit[k]

\* A key/value pattern: prefix KEY sep VALUE, where KEY is a token (keyTok)
\* or, when keyClass is not empty, a run [keyClass]+, and VALUE is a token.
\* What follows a key ending at p: sep, then a value
RestAfterKey(s, p, pat) ==
    IF LiteralAt(s, p + 1, pat.sep)
    THEN TokenEnd(s, p + 1 + Len(pat.sep), pat.valTok)
    ELSE 0

\* The match of pat at position i: <<first and last position of the key, of
\* the value>>, or <<>>.  The key alternatives are tried in order, and for a
\* repetition the longest key after which the rest matches is taken.
MatchAt(s, i, pat) ==
    IF ~LiteralAt(s, i, pat.prefix) THEN <<>>
    ELSE
    LET k == i + Len(pat.prefix)
        byClass == pat.keyClass # {}
        dq == IF byClass THEN 0 ELSE QuotedEnd(s, k, DQ, pat.keyTok.match_pattern)
        sq == IF byClass THEN 0 ELSE QuotedEnd(s, k, SQ, pat.keyTok.match_pattern)
        runs == IF byClass THEN ClassRunEnds(s, k, pat.keyClass)
                ELSE BareEnds(s, k, pat.keyTok)
        good == {p \in runs : RestAfterKey(s, p, pat) # 0}
        p == IF dq # 0 /\ RestAfterKey(s, dq, pat) # 0 THEN dq
             ELSE IF sq # 0 /\ RestAfterKey(s, sq, pat) # 0 THEN sq
             ELSE IF good # {} THEN SetMax(good)
             ELSE 0
    IN  IF p = 0 THEN <<>>
        ELSE <<k, p, p + 1 + Len(pat.sep), RestAfterKey(s, p, pat)>>

RECURSIVE FindAllFrom(_, _, _)
\* re.findall(pat, s) from position i: the (key, value) groups of the
\* non-overlapping matches, leftmost first
FindAllFrom(s, i, pat) ==
    IF i > Len(s) THEN <<>>
    ELSE LET m == MatchAt(s, i, pat)
         IN  IF m = <<>> THEN FindAllFrom(s, i + 1, pat)
             ELSE <<  <<SubSeq(s, m[1], m[2]), SubSeq(s, m[3], m[4])>>  >>
                  \o FindAllFrom(s, m[4] + 1, pat)

FindAll(pat, s) ==
    FindAllFrom(s, 1, pat)

RECURSIVE FindAllQuotedFrom(_, _, _)
\* re.findall of a pattern without the delimiter alternative: the quoted
\* spans of s, leftmost first
FindAllQuotedFrom(s, i, tok) ==
    IF i > Len(s) THEN <<>>
    ELSE LET e == TokenEnd(s, i, tok)
         IN  IF e = 0 THEN FindAllQuotedFrom(s, i + 1, tok)
             ELSE <<SubSeq(s, i, e)>> \o FindAllQuotedFrom(s, e + 1, tok)

FindAllQuoted(tok, s) ==
    FindAllQuotedFrom(s, 1, tok)

(***************************************************************************)
(* The patterns of the parameter types                                     *)
(***************************************************************************)

NoKeyTok ==
    [match_pattern |-> ".", delim |-> "", single |-> FALSE]

\* CfnParameterOverridesType.VALUE_REGEX_SPACE_DELIM
VALUE_REGEX_SPACE_DELIM ==
    _generate_match_regex(".", SP)

\* (?:ParameterKey={key},ParameterValue={value})
_pattern_1 ==
    [prefix |-> <<"P","a","r","a","m","e","t","e","r","K","e","y","=">>,
     keyClass |-> PARAM_AND_METADATA_KEY_REGEX, keyTok |-> NoKeyTok,
     sep |-> <<",","P","a","r","a","m","e","t","e","r","V","a","l","u","e","=">>,
     valTok |-> VALUE_REGEX_SPACE_DELIM]

\* (?:(?: ){key}={value})
_pattern_2 ==
    [prefix |-> <<SP>>,
     keyClass |-> PARAM_AND_METADATA_KEY_REGEX, keyTok |-> NoKeyTok,
     sep |-> <<EQ>>,
     valTok |-> VALUE_REGEX_SPACE_DELIM]

\* the two patterns the other way round
ordered_pattern_match_CompactFirst ==
    <<_pattern_2, _pattern_1>>

ordered_pattern_match ==
    <<_pattern_1, _pattern_2>>

\* CfnMetadataType.VALUE_REGEX_COMMA_DELIM
VALUE_REGEX_COMMA_DELIM ==
    _generate_match_regex(".", ",")

\* CfnMetadataType._pattern, (?:{key}={value})
CfnMetadataType_pattern ==
    [prefix |-> <<>>,
     keyClass |-> PARAM_AND_METADATA_KEY_REGEX, keyTok |-> NoKeyTok,
     sep |-> <<EQ>>,
     valTok |-> VALUE_REGEX_COMMA_DELIM]

\* CfnTags._pattern, {tag}={tag}
CfnTags_pattern ==
    [prefix |-> <<>>,
     keyClass |-> {}, keyTok |-> _generate_match_regex("tag", SP),
     sep |-> <<EQ>>,
     valTok |-> _generate_match_regex("tag", SP)]

\* CfnTags._quoted_pattern: no delimiter, quoted spans only
CfnTags_quoted_pattern ==
    _generate_match_regex("tag", "")

\* SigningProfilesOptionType.pattern:
\* (?:(?: )([A-Za-z0-9\"]+)=(\"(?:\\.|[^\"\\]+)*\"|(?:\\.|[^ \"\\]+)+))
SigningProfilesOptionType_pattern ==
    [prefix |-> <<SP>>,
     keyClass |-> SigningKeyClass, keyTok |-> NoKeyTok,
     sep |-> <<EQ>>,
     valTok |-> [match_pattern |-> ".", delim |-> SP, single |-> FALSE]]

(***************************************************************************)
(* TextWithSpaces.  Positions are counted from 1 (Python counts from 0).   *)
(***************************************************************************)

TextWithSpaces(text) ==
    [text |-> text, modified_text |-> text, space_positions |-> {}]

\* the object after replace_spaces(); the method returns its modified_text
replace_spaces(obj, replacement) ==
    [text |-> obj.text,
     modified_text |-> StrReplace(obj.text, <<SP>>, <<replacement>>),
     space_positions |-> {i \in 1..Len(obj.text) : obj.text[i] = SP}]

restore_spaces(obj) ==
    [i \in 1..Len(obj.modified_text) |->
        IF i \in obj.space_positions THEN SP ELSE obj.modified_text[i]]

(***************************************************************************)
(* CfnTags: the parsers                                                    *)
(***************************************************************************)

\* the value a parser returns with parsed = False is None: tags is unused
_standard_key_value_parser(tag_value) ==
    IF StrCount(tag_value, EQ) # 1
    THEN [parsed |-> FALSE, tags |-> <<>>]
    ELSE LET splits == StrSplit(tag_value, EQ)
         IN  [parsed |-> TRUE, tags |-> << <<splits[1], splits[2]>> >>]

RECURSIVE KeyValueLoop(_, _)
\* the loop of both space separated parsers over the pieces of the split
KeyValueLoop(pieces, tags_dict) ==
    IF pieces = <<>> THEN [parsed |-> TRUE, tags |-> tags_dict]
    ELSE LET one == _standard_key_value_parser(pieces[1])
         IN  IF ~one.parsed THEN [parsed |-> FALSE, tags |-> <<>>]
             ELSE KeyValueLoop(Tail(pieces), DictUpdate(tags_dict, one.tags))

_space_separated_key_value_parser(tag_value) ==
    KeyValueLoop(StrSplit(tag_value, SP), <<>>)

\* returns None (parsed = FALSE) or the dict
_multiple_space_separated_key_value_parser(tag_value) ==
    KeyValueLoop(StrSplitWhitespace(tag_value), <<>>)

\* CfnTags._add_value: the result map after the call
_add_value(multiple_values_per_key, res, key, new_value) ==
    IF multiple_values_per_key
    THEN LET r1 == IF ~DictHas(res, key) \/ DictGet(res, key) = <<>>
                   THEN DictSet(res, key, <<>>)
                   ELSE res
         IN  DictSet(r1, key, Append(DictGet(r1, key), new_value))
    ELSE DictSet(res, key, new_value)

RECURSIVE AddPairs(_, _, _)
\* for k, v in pairs: _add_value(result, unquote(k), unquote(v))
AddPairs(multiple_values_per_key, res, pairs) ==
    IF pairs = <<>> THEN res
    ELSE AddPairs(multiple_values_per_key,
                  _add_value(multiple_values_per_key, res,
                             _unquote_wrapped_quotes(pairs[1][1]),
                             _unquote_wrapped_quotes(pairs[1][2])),
                  Tail(pairs))

RECURSIVE ReplaceQuoted(_, _)
\* for s, replacement in zip(...): modified_val = modified_val.replace(s, ...)
ReplaceQuoted(modified_val, objects) ==
    IF objects = <<>> THEN modified_val
    ELSE ReplaceQuoted(StrReplace(modified_val, objects[1].text,
                                  objects[1].modified_text),
                       Tail(objects))

\* new_value of a parsed value: the first object whose modified_text is the
\* value gives its text with the spaces restored
RestoredValue(v, objects) ==
    LET text_objects == SelectSeq(objects, LAMBDA obj : obj.modified_text = v)
    IN  IF Len(text_objects) > 0 THEN restore_spaces(text_objects[1]) ELSE v

\* _parse_key_value_pair up to the default parser: its tags (None when
\* parsed is FALSE), each value already with its spaces restored
PlaceholderParse(key_value_string) ==
    LET modified_val == _unquote_wrapped_quotes(key_value_string)
        quoted_strings_with_spaces ==
            FindAllQuoted(CfnTags_quoted_pattern, modified_val)
        objects ==
            [i \in 1..Len(quoted_strings_with_spaces) |->
                replace_spaces(TextWithSpaces(quoted_strings_with_spaces[i]), US)]
        got == _multiple_space_separated_key_value_parser(
                   ReplaceQuoted(modified_val, objects))
    IN  [parsed |-> got.parsed,
         tags |-> [i \in 1..Len(got.tags) |->
                      <<got.tags[i][1], RestoredValue(got.tags[i][2], objects)>>]]

\* the fallback of _parse_key_value_pair: the groups of the full pattern
FallbackGroups(key_value_string) ==
    FindAll(CfnTags_pattern, key_value_string)

(***************************************************************************)
(* State                                                                   *)
(***************************************************************************)

VARIABLES
    value,       \* the argument of convert: [type, items]; a str has one item
    shape,       \* how the input was written: per item, the numbers of its
                 \* chunks (history)
    multiple_values_per_key,   \* CfnTags.multiple_values_per_key
    result,      \* the result dict of the running call
    idx,         \* position of val in value (the for loop)
    pc,          \* where the call is; it ends at "returned_empty" (an early
                 \* return), "done" (the return after the loop) or "failed"
    parsed,      \* CfnTags.convert: parsed
    tags,        \* CfnTags.convert: tags
    fail,        \* the fail flag of convert
    error,       \* the message of the error the call raised, "" when none
    stageLog,    \* history: the stages run on the current val, with outcome
    addedBy,     \* history: the stages that added a pair for the current val
    resultBefore, \* history: result when the current val was taken up
    pattern,     \* CfnParameterOverridesType.convert: pattern, as its position
                 \* in ordered_pattern_match
    groups,      \* the groups of the last re.findall of convert
    signing_profiles,      \* SigningProfilesOptionType.convert: the pairs
                           \* found in val
    pair,                  \* position in signing_profiles (the inner loop)
    signer_profile_name,   \* SigningProfilesOptionType.convert
    signer_profile_owner,  \* SigningProfilesOptionType.convert
    seen         \* history: the <<cause, error>> of the signing profile calls
                 \* that failed so far

vars ==
    <<value, shape, multiple_values_per_key, result, idx, pc, parsed, tags,
      fail, error, stageLog, addedBy, resultBefore, pattern, groups,
      signing_profiles, pair, signer_profile_name, signer_profile_owner, seen>>

\* the variables of SigningProfilesOptionType alone
signVars ==
    <<signing_profiles, pair, signer_profile_name, signer_profile_owner, seen>>

\* the variables CfnTags does not use
notTagsVars ==
    <<pattern, signVars>>

\* the variables CfnParameterOverridesType does not use
notParamVars ==
    <<multiple_values_per_key, parsed, tags, fail, stageLog, signVars>>

\* the variables CfnMetadataType does not use
notMetaVars ==
    <<multiple_values_per_key, idx, parsed, tags, addedBy, resultBefore,
      pattern, signVars>>

\* the variables SigningProfilesOptionType does not use
notSignVars ==
    <<multiple_values_per_key, parsed, tags, fail, stageLog, addedBy,
      resultBefore, pattern, groups>>

\* the signing profile variables before any signing profile call
SignIdle ==
    /\ signing_profiles = <<>>
    /\ pair = 1
    /\ signer_profile_name = <<>>
    /\ signer_profile_owner = <<>>
    /\ seen = {}

(***************************************************************************)
(* Inputs.  An input item is written as chunks joined by single spaces.    *)
(***************************************************************************)

\* the most chunks in one call, and the most items in one call
MaxChunks == 3

MaxArgs == 2

RECURSIVE JoinWithSpace(_)
JoinWithSpace(texts) ==
    IF texts = <<>> THEN <<>>
    ELSE IF Len(texts) = 1 THEN texts[1]
    ELSE texts[1] \o <<SP>> \o JoinWithSpace(Tail(texts))

\* sequences of at most n elements of S
SeqsUpTo(S, n) ==
    UNION {[1..k -> S] : k \in 0..n}

RECURSIVE ShapesOf(_, _, _)
\* a items holding at most n chunks (numbers of 1..c) together
ShapesOf(a, n, c) ==
    IF a = 0 THEN {<<>>}
    ELSE UNION {{<<first>> \o rest : rest \in ShapesOf(a - 1, n - Len(first), c)} :
                first \in SeqsUpTo(1..c, n)}

\* The chunks of tag inputs: a=1, "a"=2, k="x y", b="x_y", "x y"=1, and c,
\* which is no assignment
TagChunks ==
    << [key |-> <<"a">>,               val |-> <<"1">>,               assign |-> TRUE],
       [key |-> <<DQ,"a",DQ>>,         val |-> <<"2">>,               assign |-> TRUE],
       [key |-> <<"k">>,               val |-> <<DQ,"x",SP,"y",DQ>>,  assign |-> TRUE],
       [key |-> <<"b">>,               val |-> <<DQ,"x",US,"y",DQ>>,  assign |-> TRUE],
       [key |-> <<DQ,"x",SP,"y",DQ>>,  val |-> <<"1">>,               assign |-> TRUE],
       [key |-> <<"c">>,               val |-> <<>>,                  assign |-> FALSE] >>

ChunkText(ch) ==
    IF ch.assign THEN ch.key \o <<EQ>> \o ch.val ELSE ch.key

\* the items a shape stands for
ItemsOf(sh, chunks) ==
    [i \in 1..Len(sh) |->
        JoinWithSpace([j \in 1..Len(sh[i]) |-> ChunkText(chunks[sh[i][j]])])]

\* the Python types an input of n items can have
TypesOf(n) ==
    {"tuple", "list"} \cup (IF n = 1 THEN {"str"} ELSE {})

\* the inputs written with chunks 1..c: up to MaxArgs items
InputShapes(c) ==
    UNION {ShapesOf(a, MaxChunks, c) : a \in 0..MaxArgs}

(***************************************************************************)
(* CfnTags.convert                                                         *)
(***************************************************************************)

TagsInit ==
    /\ shape \in InputShapes(Len(TagChunks))
    /\ \E t \in TypesOf(Len(shape)) :
          value = [type |-> t, items |-> ItemsOf(shape, TagChunks)]
    /\ multiple_values_per_key \in BOOLEAN
    /\ result = <<>>
    /\ idx = 1
    /\ pc = "begin"
    /\ parsed = FALSE
    /\ tags = <<>>
    /\ fail = FALSE
    /\ error = ""
    /\ stageLog = <<>>
    /\ addedBy = {}
    /\ resultBefore = <<>>
    /\ pattern = 0
    /\ groups = <<>>
    /\ SignIdle

\* AfterStage with the parse of stage 3 run whatever stage 2 returned
AfterStage_IgnoringParsed(st, ok) ==
    CASE st = 1 -> IF ok THEN "add" ELSE "space"
      [] st = 2 -> "placeholder"
      [] st = 3 -> IF ok THEN "check" ELSE "fallback"
      [] OTHER  -> "check"

\* where convert goes after stage st ended with outcome ok
AfterStage(st, ok) ==
    CASE st = 1 -> IF ok THEN "add" ELSE "space"
      [] st = 2 -> IF ok THEN "add" ELSE "placeholder"
      [] st = 3 -> IF ok THEN "check" ELSE "fallback"
      [] OTHER  -> "check"

\* FallbackParseResult with parse_result never set back to True
FallbackParseResult_AlwaysFalse(gs) ==
    FALSE

\* parse_result of the fallback
FallbackParseResult(gs) ==
    gs # <<>>

\* convert up to the loop: result = {}, fail = False, the early returns and
\* the conversion of a list or a str to a tuple
TagsBegin ==
    /\ pc = "begin"
    /\ result' = <<>>
    /\ fail' = FALSE
    /\ IF value = [type |-> "tuple", items |-> << <<>> >>]
       THEN pc' = "returned_empty" /\ value' = value
       ELSE IF value.type = "list" /\ value.items = <<>>
       THEN pc' = "returned_empty" /\ value' = value
       ELSE pc' = "loop" /\ value' = [type |-> "tuple", items |-> value.items]
    /\ UNCHANGED <<shape, multiple_values_per_key, idx, parsed, tags, error,
                   stageLog, addedBy, resultBefore>>
    /\ UNCHANGED <<groups, notTagsVars>>

\* for val in value: parsed, tags = self._standard_key_value_parser(val)
TagsStandard ==
    /\ pc = "loop"
    /\ idx <= Len(value.items)
    /\ LET got == _standard_key_value_parser(value.items[idx])
       IN  /\ parsed' = got.parsed
           /\ tags' = got.tags
           /\ pc' = AfterStage(1, got.parsed)
           /\ stageLog' = << [stage |-> 1, ok |-> got.parsed] >>
    /\ addedBy' = {}
    /\ resultBefore' = result
    /\ UNCHANGED <<value, shape, multiple_values_per_key, result, idx, fail, error>>
    /\ UNCHANGED <<groups, notTagsVars>>

\* if not parsed: parsed, tags = self._space_separated_key_value_parser(val)
TagsSpaceSeparated ==
    /\ pc = "space"
    /\ LET got == _space_separated_key_value_parser(value.items[idx])
       IN  /\ parsed' = got.parsed
           /\ tags' = got.tags
           /\ pc' = AfterStage(2, got.parsed)
           /\ stageLog' = Append(stageLog, [stage |-> 2, ok |-> got.parsed])
    /\ UNCHANGED <<value, shape, multiple_values_per_key, result, idx, fail, error,
                   addedBy, resultBefore>>
    /\ UNCHANGED <<groups, notTagsVars>>

\* if parsed: for k in tags: self._add_value(...)
TagsAdd ==
    /\ pc = "add"
    /\ result' = AddPairs(multiple_values_per_key, result, tags)
    /\ addedBy' = IF tags = <<>> THEN addedBy
                  ELSE addedBy \cup {stageLog[Len(stageLog)].stage}
    /\ pc' = "check"
    /\ UNCHANGED <<value, shape, multiple_values_per_key, idx, parsed, tags, fail,
                   error, stageLog, resultBefore>>
    /\ UNCHANGED <<groups, notTagsVars>>

\* else: fail = not self._parse_key_value_pair(result, val), its first part:
\* the default parser on the copy with the placeholders
TagsPlaceholder ==
    /\ pc = "placeholder"
    /\ LET got == PlaceholderParse(value.items[idx])
       IN  /\ pc' = AfterStage(3, got.parsed)
           /\ stageLog' = Append(stageLog, [stage |-> 3, ok |-> got.parsed])
           /\ IF got.parsed
              THEN /\ result' = AddPairs(multiple_values_per_key, result, got.tags)
                   /\ addedBy' = IF got.tags = <<>> THEN addedBy ELSE addedBy \cup {3}
                   /\ fail' = FALSE
              ELSE UNCHANGED <<result, addedBy, fail>>
    /\ UNCHANGED <<value, shape, multiple_values_per_key, idx, parsed, tags, error,
                   resultBefore>>
    /\ UNCHANGED <<groups, notTagsVars>>

\* _parse_key_value_pair, its second part: the full pattern
TagsFallback ==
    /\ pc = "fallback"
    /\ groups' = FallbackGroups(value.items[idx])
    /\ pc' = AfterStage(4, FallbackParseResult(groups'))
    /\ stageLog' = Append(stageLog, [stage |-> 4, ok |-> groups' # <<>>])
    /\ result' = AddPairs(multiple_values_per_key, result, groups')
    /\ addedBy' = IF groups' = <<>> THEN addedBy ELSE addedBy \cup {4}
    /\ fail' = ~FallbackParseResult(groups')
    /\ UNCHANGED <<value, shape, multiple_values_per_key, idx, parsed, tags, error,
                   resultBefore>>
    /\ UNCHANGED notTagsVars

\* if fail: return self.fail(...)
TagsFail ==
    /\ pc = "check"
    /\ fail
    /\ pc' = "failed"
    /\ error' = "is not in valid format. It must look something like"
    /\ UNCHANGED <<value, shape, multiple_values_per_key, result, idx, parsed, tags,
                   fail, stageLog, addedBy, resultBefore>>
    /\ UNCHANGED <<groups, notTagsVars>>

\* the end of one pass of the loop
TagsNextVal ==
    /\ pc = "check"
    /\ ~fail
    /\ idx' = idx + 1
    /\ pc' = "loop"
    /\ UNCHANGED <<value, shape, multiple_values_per_key, result, parsed, tags, fail,
                   error, stageLog, addedBy, resultBefore>>
    /\ UNCHANGED <<groups, notTagsVars>>

\* return result
TagsReturn ==
    /\ pc = "loop"
    /\ idx > Len(value.items)
    /\ pc' = "done"
    /\ UNCHANGED <<value, shape, multiple_values_per_key, result, idx, parsed, tags,
                   fail, error, stageLog, addedBy, resultBefore>>
    /\ UNCHANGED <<groups, notTagsVars>>

TagsNext ==
    \/ TagsBegin
    \/ TagsStandard
    \/ TagsSpaceSeparated
    \/ TagsAdd
    \/ TagsPlaceholder
    \/ TagsFallback
    \/ TagsFail
    \/ TagsNextVal
    \/ TagsReturn

SpecTags ==
    TagsInit /\ [][TagsNext]_vars

(***************************************************************************)
(* CfnTags: what the input says.  The assignments of a call are its        *)
(* chunks in input order; a key or value written in wrapping quotes stands *)
(* for the text between them.                                              *)
(***************************************************************************)

Inner(x) ==
    IF Len(x) >= 2 /\ x[1] = DQ /\ x[Len(x)] = DQ THEN SubSeq(x, 2, Len(x) - 1) ELSE x

RECURSIVE Flatten(_)
Flatten(sh) ==
    IF sh = <<>> THEN <<>> ELSE sh[1] \o Flatten(Tail(sh))

\* the chunks of the call, in input order
GivenChunks ==
    [i \in 1..Len(Flatten(shape)) |-> TagChunks[Flatten(shape)[i]]]

\* the call is made of chunks of the set S only, at least one in every item
MadeOf(S) ==
    /\ shape # <<>>
    /\ \A i \in 1..Len(shape) : shape[i] # <<>>
    /\ \A i \in 1..Len(GivenChunks) : GivenChunks[i] \in S

\* the values assigned to key k, in input order
ValuesGiven(k) ==
    LET mine == SelectSeq(GivenChunks, LAMBDA ch : Inner(ch.key) = k)
    IN  [i \in 1..Len(mine) |-> Inner(mine[i].val)]

KeysGiven ==
    {Inner(GivenChunks[i].key) : i \in 1..Len(GivenChunks)}

HasInnerSpace(x) ==
    /\ Inner(x) # x
    /\ \E i \in 1..Len(Inner(x)) : Inner(x)[i] = SP

(***************************************************************************)
(* C1..C6: CfnTags                                                         *)
(***************************************************************************)

\* C1: in multi-value mode, after decoding, the list under each key holds the
\* value of every assignment to that key in the input, in input order; also
\* when one item assigns the key more than once (a=1 a=2 gives a: [1, 2]).
\* Stated for inputs of the chunks a=1 and "a"=2.
C1_MultiValueKeepsEveryAssignment ==
    (/\ pc = "done"
     /\ multiple_values_per_key
     /\ MadeOf({TagChunks[1], TagChunks[2]}))
    => \A k \in KeysGiven : DictHas(result, k) /\ DictGet(result, k) = ValuesGiven(k)

\* C2: in single-value mode, after decoding, the value under each unquoted
\* key is the value of the last assignment to that key in input order, where
\* a and "a" are the same key.  Stated for inputs of the chunks a=1 and "a"=2.
C2_SingleValueKeepsLastAssignment ==
    (/\ pc = "done"
     /\ ~multiple_values_per_key
     /\ MadeOf({TagChunks[1], TagChunks[2]}))
    => \A k \in KeysGiven :
          /\ DictHas(result, k)
          /\ DictGet(result, k) = ValuesGiven(k)[Len(ValuesGiven(k))]

\* C3: per item the four stages run in the fixed order 1, 2, 3, 4, a stage runs
\* only if every earlier one failed, the pairs added come from one stage, the
\* first that succeeded, and the error is raised only after stage 4 found no
\* pair with stages 1..3 failed.
C3_StagesInOrderFirstSuccessWins ==
    /\ \A i \in 1..Len(stageLog) : stageLog[i].stage = i
    /\ \A i \in 1..Len(stageLog) : stageLog[i].ok => i = Len(stageLog)
    /\ \A st \in addedBy : stageLog[Len(stageLog)] = [stage |-> st, ok |-> TRUE]
    /\ pc = "failed" =>
          /\ Len(stageLog) = 4
          /\ \A i \in 1..4 : ~stageLog[i].ok
          /\ FallbackGroups(value.items[idx]) = <<>>

\* C3 witness: stage 4 added the pairs of an item on which stages 1..3 failed
C3_Witness ==
    /\ pc = "check"
    /\ addedBy = {4}
    /\ Len(stageLog) = 4
    /\ result # resultBefore

\* C4: an item of two or more assignments in which a value is wrapped in quotes
\* and has interior spaces maps every key to the text between its value's
\* quotes (or the bare value), every space restored and no other character of
\* any value changed.  Stated for unquoted distinct keys (a=1, k="x y", b="x_y").
C4_QuotedValuesDecodedExactly ==
    (/\ pc = "done"
     /\ ~multiple_values_per_key
     /\ Len(shape) = 1
     /\ Len(shape[1]) >= 2
     /\ MadeOf({TagChunks[1], TagChunks[3], TagChunks[4]})
     /\ \E i \in 1..Len(GivenChunks) : HasInnerSpace(GivenChunks[i].val)
     /\ \A i, j \in 1..Len(GivenChunks) :
           GivenChunks[i].key = GivenChunks[j].key => i = j)
    => \A i \in 1..Len(GivenChunks) :
          /\ DictHas(result, GivenChunks[i].key)
          /\ DictGet(result, GivenChunks[i].key) = Inner(GivenChunks[i].val)

\* C5: a key wrapped in quotes with interior spaces is decoded to the text
\* between its quotes, spaces kept, also when the item holds several
\* assignments ("x y"=1 a=1 gives the key x y).
C5_QuotedKeysKeepSpaces ==
    (/\ pc = "done"
     /\ ~multiple_values_per_key
     /\ MadeOf({TagChunks[1], TagChunks[5]}))
    => \A i \in 1..Len(GivenChunks) :
          HasInnerSpace(GivenChunks[i].key) => DictHas(result, Inner(GivenChunks[i].key))

\* C6: when an item fails every stage the call ends with the error at that
\* item; the result then holds what it held when the item was taken up, no
\* pair of the failing item was added, and the call takes no further step.
C6_FailureKeepsEarlierPairsOnly ==
    pc = "failed" =>
        /\ error # ""
        /\ idx \in 1..Len(value.items)
        /\ result = resultBefore
        /\ addedBy = {}
        /\ ~ENABLED TagsNext

\* C6 witness: the second item failed after the first had added a pair
C6_Witness ==
    /\ pc = "failed"
    /\ idx = 2
    /\ result # <<>>

(***************************************************************************)
(* CfnParameterOverridesType.convert                                       *)
(***************************************************************************)

\* the most chunks and the most items in one call
MaxParamChunks == 3

MaxParamArgs == 2

\* The chunks of parameter override inputs: ParameterKey=a,ParameterValue=1,
\* b=2, b="x y", and c, which neither pattern matches
ParamChunks ==
    << [key |-> <<"P","a","r","a","m","e","t","e","r","K","e","y","=","a",",",
                  "P","a","r","a","m","e","t","e","r","V","a","l","u","e","=","1">>,
        val |-> <<>>, assign |-> FALSE],
       [key |-> <<"b">>, val |-> <<"2">>,              assign |-> TRUE],
       [key |-> <<"b">>, val |-> <<DQ,"x",SP,"y",DQ>>, assign |-> TRUE],
       [key |-> <<"c">>, val |-> <<>>,                 assign |-> FALSE] >>

ParamShapes ==
    UNION {ShapesOf(a, MaxParamChunks, Len(ParamChunks)) : a \in 0..MaxParamArgs}

ParamInit ==
    /\ shape \in ParamShapes
    /\ \E t \in TypesOf(Len(shape)) :
          value = [type |-> t, items |-> ItemsOf(shape, ParamChunks)]
    /\ multiple_values_per_key = FALSE
    /\ result = <<>>
    /\ idx = 1
    /\ pc = "begin"
    /\ parsed = FALSE
    /\ tags = <<>>
    /\ fail = FALSE
    /\ error = ""
    /\ stageLog = <<>>
    /\ addedBy = {}
    /\ resultBefore = <<>>
    /\ pattern = 0
    /\ groups = <<>>
    /\ SignIdle

\* normalized_val = " " + val.strip()
NormalizedVal(val) ==
    <<SP>> \o StrStrip(val)

\* next(i for i in filter(lambda item: re.findall(item, normalized_val),
\* patterns)): the position of the first pattern with a match, 0 for
\* StopIteration
FirstMatching(patterns, normalized_val) ==
    LET hits == {i \in 1..Len(patterns) : FindAll(patterns[i], normalized_val) # <<>>}
    IN  IF hits = {} THEN 0 ELSE CHOOSE i \in hits : \A k \in hits : i <= k

RECURSIVE StoreUnquoted(_, _)
\* for key, param_value in groups: result[unquote(key)] = unquote(param_value)
StoreUnquoted(res, gs) ==
    IF gs = <<>> THEN res
    ELSE StoreUnquoted(DictSet(res, _unquote_wrapped_quotes(gs[1][1]),
                                    _unquote_wrapped_quotes(gs[1][2])),
                       Tail(gs))

\* convert up to the loop
ParamBegin ==
    /\ pc = "begin"
    /\ result' = <<>>
    /\ IF value = [type |-> "tuple", items |-> << <<>> >>]
       THEN pc' = "returned_empty" /\ value' = value
       ELSE /\ pc' = "loop"
            /\ value' = IF value.type = "str"
                        THEN [type |-> "tuple", items |-> value.items]
                        ELSE value
    /\ UNCHANGED <<shape, idx, error, addedBy, resultBefore, pattern, groups>>
    /\ UNCHANGED notParamVars

\* for val in value: the first pattern that matches, or the format error
ParamSelect ==
    /\ pc = "loop"
    /\ idx <= Len(value.items)
    /\ LET first == FirstMatching(ordered_pattern_match,
                                  NormalizedVal(value.items[idx]))
       IN  /\ pattern' = first
           /\ IF first = 0
              THEN /\ pc' = "failed"
                   /\ error' = "is not in valid format. It must look something like"
              ELSE /\ pc' = "extract"
                   /\ error' = error
    /\ resultBefore' = result
    /\ addedBy' = {}
    /\ UNCHANGED <<value, shape, result, idx, groups>>
    /\ UNCHANGED notParamVars

\* groups = re.findall(pattern, normalized_val) and the loop over them
ParamExtract ==
    /\ pc = "extract"
    /\ LET gs == FindAll(ordered_pattern_match[pattern],
                         NormalizedVal(value.items[idx]))
       IN  /\ groups' = gs
           /\ result' = StoreUnquoted(result, gs)
           /\ addedBy' = IF gs = <<>> THEN addedBy ELSE addedBy \cup {pattern}
    /\ idx' = idx + 1
    /\ pc' = "loop"
    /\ UNCHANGED <<value, shape, error, resultBefore, pattern>>
    /\ UNCHANGED notParamVars

\* return result
ParamReturn ==
    /\ pc = "loop"
    /\ idx > Len(value.items)
    /\ pc' = "done"
    /\ UNCHANGED <<value, shape, result, idx, error, addedBy, resultBefore,
                   pattern, groups>>
    /\ UNCHANGED notParamVars

ParamNext ==
    \/ ParamBegin
    \/ ParamSelect
    \/ ParamExtract
    \/ ParamReturn

SpecParams ==
    ParamInit /\ [][ParamNext]_vars

\* the token at position i as the patterns see it
ParamToken(i) ==
    NormalizedVal(value.items[i])

\* re.findall of the verbose and of the compact pattern on token i
VerboseGroups(i) ==
    FindAll(_pattern_1, ParamToken(i))

CompactGroups(i) ==
    FindAll(_pattern_2, ParamToken(i))

\* the tokens on which neither pattern finds a pair
UnmatchedTokens ==
    {i \in 1..Len(value.items) : VerboseGroups(i) = <<>> /\ CompactGroups(i) = <<>>}

\* the pairs the decoder has to take from token i
GroupsDue(i) ==
    IF VerboseGroups(i) # <<>> THEN VerboseGroups(i) ELSE CompactGroups(i)

\* C7, as stated: once the call of the parameter override decoder has ended,
\* it has failed with the format error exactly when some token of the input
\* is matched by neither the verbose nor the compact pattern.
C7_FailsExactlyWhenSomeTokenUnmatched ==
    pc \in {"done", "failed", "returned_empty"} =>
        (pc = "failed" <=> UnmatchedTokens # {})

\* C7, amended: every token is extracted by exactly one pattern, the verbose
\* one whenever it finds a pair on the space-prefixed token and otherwise the
\* compact one; the mapping after a token is the mapping before it updated
\* with those pairs only, so the compact pattern adds nothing for a token the
\* verbose pattern matched; and the call fails with the format error exactly
\* when some token is matched by neither pattern, except for the tuple
\* holding one empty string, which returns the empty mapping unmatched.
C7_ExactlyOneGrammarPerToken ==
    /\ pc = "extract" =>
          /\ GroupsDue(idx) # <<>>
          /\ ordered_pattern_match[pattern] =
                IF VerboseGroups(idx) # <<>> THEN _pattern_1 ELSE _pattern_2
    /\ (pc \in {"loop", "done"} /\ idx > 1) =>
          /\ groups = GroupsDue(idx - 1)
          /\ groups # <<>>
          /\ result = StoreUnquoted(resultBefore, GroupsDue(idx - 1))
    /\ pc \in {"loop", "extract", "failed", "done"} =>
          \A i \in 1..(idx - 1) : i \notin UnmatchedTokens
    /\ pc = "failed" =>
          /\ idx \in UnmatchedTokens
          /\ error = "is not in valid format. It must look something like"
          /\ result = resultBefore
    /\ pc = "done" =>
          /\ UnmatchedTokens = {}
          /\ error = ""
    /\ pc = "returned_empty" =>
          /\ value = [type |-> "tuple", items |-> << <<>> >>]
          /\ result = <<>>

\* C7: a token that both patterns match has been extracted, after a token
\* taken by the compact pattern, and only the pairs of the verbose pattern
\* were stored
C7_Witness ==
    /\ pc = "loop"
    /\ idx = 3
    /\ VerboseGroups(1) = <<>>
    /\ VerboseGroups(2) # <<>>
    /\ CompactGroups(2) # <<>>
    /\ Len(CompactGroups(2)) > Len(VerboseGroups(2))
    /\ groups = VerboseGroups(2)
    /\ Len(result) = 2

(***************************************************************************)
(* json.loads, as CfnMetadataType.convert calls it.  A decoded value is a  *)
(* record [kind, text, items]: kind is "dict", "list", "str", "number",    *)
(* "true", "false" or "null"; a dict holds its <<key, value>> pairs in     *)
(* items, a list its elements, a str its characters in text and a number   *)
(* the text it was written with.  Surrogate pairs of \u escapes are not    *)
(* joined.                                                                 *)
(***************************************************************************)

JsonValue(kind, text, items) ==
    [kind |-> kind, text |-> text, items |-> items]

\* a scan that raised: JSONDecodeError in the end
JsonError ==
    [ok |-> FALSE, end |-> 0, val |-> JsonValue("null", <<>>, <<>>)]

JsonOk(end, val) ==
    [ok |-> TRUE, end |-> end, val |-> val]

\* json.decoder.WHITESPACE
JsonWhitespace ==
    {SP, "\t", "\n", "\r"}

\* the characters below 0x20 a string can be written with here
ControlChars ==
    {"\t", "\n", "\r", "\f"}

HexDigits ==
    Digits \cup {"a","b","c","d","e","f","A","B","C","D","E","F"}

\* json.decoder.BACKSLASH; the backspace is written "\\b"
BACKSLASH ==
    [c \in {DQ, BS, "/", "b", "f", "n", "r", "t"} |->
        CASE c = "b" -> "\\b"
          [] c = "f" -> "\f"
          [] c = "n" -> "\n"
          [] c = "r" -> "\r"
          [] c = "t" -> "\t"
          [] OTHER -> c]

RECURSIVE SkipWhitespace(_, _)
\* WHITESPACE.match(s, i).end()
SkipWhitespace(s, i) ==
    IF i <= Len(s) /\ s[i] \in JsonWhitespace THEN SkipWhitespace(s, i + 1) ELSE i

RECURSIVE py_scanstring(_, _, _)
\* the string whose opening quote ends before i, strict; acc is what was
\* decoded so far
py_scanstring(s, i, acc) ==
    IF i > Len(s) THEN JsonError
    ELSE IF s[i] = DQ THEN JsonOk(i + 1, JsonValue("str", acc, <<>>))
    ELSE IF s[i] \in ControlChars THEN JsonError
    ELSE IF s[i] # BS THEN py_scanstring(s, i + 1, Append(acc, s[i]))
    ELSE IF i + 1 > Len(s) THEN JsonError
    ELSE IF s[i + 1] = "u"
         THEN IF i + 5 <= Len(s) /\ \A k \in 2..5 : s[i + k] \in HexDigits
              THEN py_scanstring(s, i + 6,
                       Append(acc, "\\u" \o s[i + 2] \o s[i + 3] \o s[i + 4] \o s[i + 5]))
              ELSE JsonError
    ELSE IF s[i + 1] \in DOMAIN BACKSLASH
         THEN py_scanstring(s, i + 2, Append(acc, BACKSLASH[s[i + 1]]))
    ELSE JsonError

RECURSIVE DigitsEnd(_, _)
\* the end of the digits from i on
DigitsEnd(s, i) ==
    IF i <= Len(s) /\ s[i] \in Digits THEN DigitsEnd(s, i + 1) ELSE i

\* json.scanner.NUMBER_RE at i: (-?(?:0|[1-9]\d*))(\.\d+)?([eE][-+]?\d+)?,
\* the end of the match, 0 for no match
NumberEnd(s, i) ==
    LET j == IF i <= Len(s) /\ s[i] = "-" THEN i + 1 ELSE i
        int == IF j > Len(s) THEN 0
               ELSE IF s[j] = "0" THEN j + 1
               ELSE IF s[j] \in Digits THEN DigitsEnd(s, j)
               ELSE 0
        frac == IF int <= Len(s) /\ s[int] = "." /\ DigitsEnd(s, int + 1) > int + 1
                THEN DigitsEnd(s, int + 1) ELSE int
        sign == IF frac + 1 <= Len(s) /\ s[frac + 1] \in {"-", "+"}
                THEN frac + 2 ELSE frac + 1
    IN  IF int = 0 THEN 0
        ELSE IF frac <= Len(s) /\ s[frac] \in {"e", "E"} /\ DigitsEnd(s, sign) > sign
        THEN DigitsEnd(s, sign)
        ELSE frac

SubSeqTo(s, i, j) ==
    SubSeq(s, i, j - 1)

RECURSIVE scan_once(_, _)
RECURSIVE JSONObject(_, _, _)
RECURSIVE JSONArray(_, _, _)

\* json.decoder.JSONObject from a key on: i is where the key has to open,
\* pairs are the pairs before it
JSONObject(s, i, pairs) ==
    IF i > Len(s) \/ s[i] # DQ THEN JsonError
    ELSE LET key == py_scanstring(s, i + 1, <<>>)
         IN  IF ~key.ok THEN JsonError
             ELSE LET colon == SkipWhitespace(s, key.end)
                  IN  IF colon > Len(s) \/ s[colon] # ":" THEN JsonError
                      ELSE LET v == scan_once(s, SkipWhitespace(s, colon + 1))
                           IN  IF ~v.ok THEN JsonError
                               ELSE LET e == SkipWhitespace(s, v.end)
                                        now == DictSet(pairs, key.val.text, v.val)
                                    IN  IF e > Len(s) THEN JsonError
                                        ELSE IF s[e] = "}"
                                        THEN JsonOk(e + 1, JsonValue("dict", <<>>, now))
                                        ELSE IF s[e] = ","
                                        THEN JSONObject(s, SkipWhitespace(s, e + 1), now)
                                        ELSE JsonError

\* json.decoder.JSONArray from an element on
JSONArray(s, i, values) ==
    LET v == scan_once(s, i)
    IN  IF ~v.ok THEN JsonError
        ELSE LET e == SkipWhitespace(s, v.end)
                 now == Append(values, v.val)
             IN  IF e > Len(s) THEN JsonError
                 ELSE IF s[e] = "]" THEN JsonOk(e + 1, JsonValue("list", <<>>, now))
                 ELSE IF s[e] = "," THEN JSONArray(s, SkipWhitespace(s, e + 1), now)
                 ELSE JsonError

\* json.scanner.py_make_scanner: _scan_once
scan_once(s, i) ==
    IF i > Len(s) THEN JsonError
    ELSE IF s[i] = DQ THEN py_scanstring(s, i + 1, <<>>)
    ELSE IF s[i] = "{"
         THEN LET j == SkipWhitespace(s, i + 1)
              IN  IF j <= Len(s) /\ s[j] = "}"
                  THEN JsonOk(j + 1, JsonValue("dict", <<>>, <<>>))
                  ELSE JSONObject(s, j, <<>>)
    ELSE IF s[i] = "["
         THEN LET j == SkipWhitespace(s, i + 1)
              IN  IF j <= Len(s) /\ s[j] = "]"
                  THEN JsonOk(j + 1, JsonValue("list", <<>>, <<>>))
                  ELSE JSONArray(s, j, <<>>)
    ELSE IF LiteralAt(s, i, <<"n","u","l","l">>)
         THEN JsonOk(i + 4, JsonValue("null", <<>>, <<>>))
    ELSE IF LiteralAt(s, i, <<"t","r","u","e">>)
         THEN JsonOk(i + 4, JsonValue("true", <<>>, <<>>))
    ELSE IF LiteralAt(s, i, <<"f","a","l","s","e">>)
         THEN JsonOk(i + 5, JsonValue("false", <<>>, <<>>))
    ELSE IF NumberEnd(s, i) # 0
         THEN LET end == NumberEnd(s, i)
              IN  JsonOk(end, JsonValue("number", SubSeqTo(s, i, end), <<>>))
    ELSE IF LiteralAt(s, i, <<"N","a","N">>)
         THEN JsonOk(i + 3, JsonValue("number", <<"N","a","N">>, <<>>))
    ELSE IF LiteralAt(s, i, <<"I","n","f","i","n","i","t","y">>)
         THEN JsonOk(i + 8, JsonValue("number", SubSeqTo(s, i, i + 8), <<>>))
    ELSE IF LiteralAt(s, i, <<"-","I","n","f","i","n","i","t","y">>)
         THEN JsonOk(i + 9, JsonValue("number", SubSeqTo(s, i, i + 9), <<>>))
    ELSE JsonError

\* json.loads(s): the value, or a JSONDecodeError (ok = FALSE)
JsonLoads(s) ==
    LET r == scan_once(s, SkipWhitespace(s, 1))
    IN  IF r.ok /\ SkipWhitespace(s, r.end) = Len(s) + 1 THEN r ELSE JsonError

(***************************************************************************)
(* CfnMetadataType.convert.  The value is a str, written as pieces put     *)
(* together without a separator.                                           *)
(***************************************************************************)

\* the most pieces in one value
MaxMetaPieces == 3

\* The pieces of metadata values: {"a": "b" [1] {"c":1} } {"a=b": a=b and ,
MetaPieces ==
    << <<"{",DQ,"a",DQ,":">>,
       <<DQ,"b",DQ>>,
       <<"[","1","]">>,
       <<"{",DQ,"c",DQ,":","1","}">>,
       <<"}">>,
       <<"{",DQ,"a","=","b",DQ,":">>,
       <<"a","=","b">>,
       <<",">> >>

RECURSIVE Concat(_)
Concat(texts) ==
    IF texts = <<>> THEN <<>> ELSE texts[1] \o Concat(Tail(texts))

MetaInit ==
    /\ \E pieces \in SeqsUpTo(1..Len(MetaPieces), MaxMetaPieces) :
          /\ shape = <<pieces>>
          /\ value = [type |-> "str",
                      items |-> <<Concat([j \in 1..Len(pieces) |-> MetaPieces[pieces[j]]])>>]
    /\ multiple_values_per_key = FALSE
    /\ result = <<>>
    /\ idx = 1
    /\ pc = "begin"
    /\ parsed = FALSE
    /\ tags = <<>>
    /\ fail = FALSE
    /\ error = ""
    /\ stageLog = <<>>
    /\ addedBy = {}
    /\ resultBefore = <<>>
    /\ pattern = 0
    /\ groups = <<>>
    /\ SignIdle

\* isinstance(val, (dict, list)), lists left out
NestedValue_DictOnly(val) ==
    val.kind = "dict"

\* isinstance(val, (dict, list))
NestedValue(val) ==
    val.kind \in {"dict", "list"}

RECURSIVE StoreGroups(_, _)
\* for group in groups: key, v = group; result[key] = v
StoreGroups(res, gs) ==
    IF gs = <<>> THEN res
    ELSE StoreGroups(DictSet(res, gs[1][1], JsonValue("str", gs[1][2], <<>>)),
                     Tail(gs))

\* convert up to the try
MetaBegin ==
    /\ pc = "begin"
    /\ result' = <<>>
    /\ fail' = FALSE
    /\ pc' = IF value.items[1] = <<>> THEN "returned_empty" ELSE "json"
    /\ UNCHANGED <<value, shape, error, stageLog, groups>>
    /\ UNCHANGED notMetaVars

\* the body of the try: json.loads and the loop over result.values(); a
\* value that is no dict has no values(), an AttributeError leaves convert
MetaJson ==
    /\ pc = "json"
    /\ LET loaded == JsonLoads(value.items[1])
       IN  /\ stageLog' = Append(stageLog, [stage |-> "json", ok |-> loaded.ok])
           /\ IF ~loaded.ok
              THEN /\ pc' = "except"
                   /\ UNCHANGED <<result, fail, error>>
              ELSE IF loaded.val.kind # "dict"
              THEN /\ pc' = "raised"
                   /\ result' = loaded.val
                   /\ error' = "AttributeError"
                   /\ fail' = fail
              ELSE /\ pc' = "check"
                   /\ result' = loaded.val.items
                   /\ fail' = (fail \/ \E i \in 1..Len(loaded.val.items) :
                                           NestedValue(loaded.val.items[i][2]))
                   /\ error' = error
    /\ UNCHANGED <<value, shape, groups>>
    /\ UNCHANGED notMetaVars

\* except JSONDecodeError: the KeyName1=string,KeyName2=string format
MetaFallback ==
    /\ pc = "except"
    /\ LET gs == FindAll(CfnMetadataType_pattern, value.items[1])
       IN  /\ groups' = gs
           /\ fail' = (fail \/ gs = <<>>)
           /\ result' = StoreGroups(result, gs)
           /\ stageLog' = Append(stageLog, [stage |-> "comma", ok |-> gs # <<>>])
    /\ pc' = "check"
    /\ UNCHANGED <<value, shape, error>>
    /\ UNCHANGED notMetaVars

\* if fail: return self.fail(...)
MetaFail ==
    /\ pc = "check"
    /\ fail
    /\ pc' = "failed"
    /\ error' = "is not in valid format. It must look something like"
    /\ UNCHANGED <<value, shape, result, fail, stageLog, groups>>
    /\ UNCHANGED notMetaVars

\* return result
MetaReturn ==
    /\ pc = "check"
    /\ ~fail
    /\ pc' = "done"
    /\ UNCHANGED <<value, shape, result, fail, error, stageLog, groups>>
    /\ UNCHANGED notMetaVars

MetaNext ==
    \/ MetaBegin
    \/ MetaJson
    \/ MetaFallback
    \/ MetaFail
    \/ MetaReturn

SpecMeta ==
    MetaInit /\ [][MetaNext]_vars

\* the stages run on the value
StagesRun ==
    {stageLog[i].stage : i \in 1..Len(stageLog)}

\* the value as json.loads decodes it, and the pairs the comma pattern finds
MetaDecoded ==
    JsonLoads(value.items[1])

MetaCommaGroups ==
    FindAll(CfnMetadataType_pattern, value.items[1])

\* the value decodes as an object with a list or an object among its values
MetaNestedObject ==
    /\ MetaDecoded.ok
    /\ MetaDecoded.val.kind = "dict"
    /\ \E i \in 1..Len(MetaDecoded.val.items) :
          MetaDecoded.val.items[i][2].kind \in {"dict", "list"}

\* the call has ended: by a return, by the format error or by the
\* AttributeError
MetaEnded ==
    pc \in {"returned_empty", "done", "failed", "raised"}

\* C8: the comma pattern is applied only after the JSON decode of the whole
\* value has failed; a value that decodes as a JSON object with a list or an
\* object among its values ends in the format error, with no run of the
\* comma pattern and nothing found by it; and after a JSON decode failure
\* the call fails exactly when the comma pattern finds no pair.
C8_CommaGrammarOnlyAfterJsonFailure ==
    /\ "comma" \in StagesRun =>
          /\ ~MetaDecoded.ok
          /\ stageLog = << [stage |-> "json", ok |-> FALSE],
                           [stage |-> "comma", ok |-> MetaCommaGroups # <<>>] >>
          /\ groups = MetaCommaGroups
    /\ MetaDecoded.ok => "comma" \notin StagesRun /\ groups = <<>>
    /\ (MetaNestedObject /\ pc \notin {"begin", "json"}) =>
          /\ fail
          /\ pc \in {"check", "failed"}
          /\ result = MetaDecoded.val.items
    /\ (MetaNestedObject /\ MetaEnded) =>
          /\ pc = "failed"
          /\ error = "is not in valid format. It must look something like"
    /\ (~MetaDecoded.ok /\ pc \in {"check", "failed", "done"}) =>
          /\ "comma" \in StagesRun
          /\ fail <=> MetaCommaGroups = <<>>
    /\ (~MetaDecoded.ok /\ value.items[1] # <<>> /\ MetaEnded) =>
          /\ pc \in {"failed", "done"}
          /\ pc = "failed" <=> MetaCommaGroups = <<>>
          /\ pc = "done" => result = StoreGroups(<<>>, MetaCommaGroups)

\* C8: a value that decodes as an object with a list among its values, and
\* in which the comma pattern would find a pair, has failed with the format
\* error after the JSON stage alone
C8_Witness ==
    /\ pc = "failed"
    /\ MetaNestedObject
    /\ MetaCommaGroups # <<>>
    /\ stageLog = << [stage |-> "json", ok |-> TRUE] >>
    /\ \E i \in 1..Len(result) : result[i][2].kind = "list"

(***************************************************************************)
(* SigningProfilesOptionType.convert, called again and again: seen keeps   *)
(* what the failed calls reported.                                         *)
(***************************************************************************)

\* the most chunks and the most items in the first call, and the most
\* chunks in the one str of a later call
MaxSignChunks == 2

MaxSignArgs == 2

MaxAgainChunks == 1

\* The chunks of signing profile inputs: F=P, G=P:O, F=P:O:X, G=:O, H="",
\* and c, which is no pair
SignChunks ==
    << [key |-> <<"F">>, val |-> <<"P">>,                     assign |-> TRUE],
       [key |-> <<"G">>, val |-> <<"P",":","O">>,             assign |-> TRUE],
       [key |-> <<"F">>, val |-> <<"P",":","O",":","X">>,     assign |-> TRUE],
       [key |-> <<"G">>, val |-> <<":","O">>,                 assign |-> TRUE],
       [key |-> <<"H">>, val |-> <<DQ,DQ>>,                   assign |-> TRUE],
       [key |-> <<"c">>, val |-> <<>>,                        assign |-> FALSE] >>

\* Python's None
None ==
    <<"None">>

NotValidCodeSignConfig ==
    "is not a valid code sign config, it should look like this 'MyFunction=SigningProfile'"

InvalidSignerProfileFormat ==
    "Signer profile option has invalid format, it should look like this MyFunction=MySigningProfile or MyFunction=MySigningProfile:MySigningProfileOwner"

\* the locals of a call before its first statement
SignFresh ==
    /\ multiple_values_per_key = FALSE
    /\ result = <<>>
    /\ idx = 1
    /\ pc = "begin"
    /\ parsed = FALSE
    /\ tags = <<>>
    /\ fail = FALSE
    /\ error = ""
    /\ stageLog = <<>>
    /\ addedBy = {}
    /\ resultBefore = <<>>
    /\ pattern = 0
    /\ groups = <<>>
    /\ signing_profiles = <<>>
    /\ pair = 1
    /\ signer_profile_name = <<>>
    /\ signer_profile_owner = <<>>

\* The keys of the mappings given as value: F, G and F=P:O
SignDictKeys ==
    << <<"F">>, <<"G">>, <<"F","=","P",":","O">> >>

\* the entries of such a mapping: profile P, without owner or of owner O
SignDictEntries ==
    {[profile_name |-> <<"P">>, profile_owner |-> o] : o \in {<<>>, <<"O">>}}

\* The mappings given as value, decoded before: a dict is the sequence of
\* its <<key, entry>> pairs, at most MaxSignArgs of them, the keys distinct
SignDicts ==
    {d \in SeqsUpTo(1..Len(SignDictKeys), MaxSignArgs) :
        \A i, j \in 1..Len(d) : i # j => d[i] # d[j]}

\* val at position i of the loop over value; a dict gives its keys
SignVal(i) ==
    IF value.type = "dict" THEN value.items[i][1] ELSE value.items[i]

SignInit ==
    /\ \/ /\ shape \in UNION {ShapesOf(a, MaxSignChunks, Len(SignChunks)) :
                                a \in 0..MaxSignArgs}
          /\ \E t \in TypesOf(Len(shape)) :
                value = [type |-> t, items |-> ItemsOf(shape, SignChunks)]
       \/ /\ shape = <<>>
          /\ \E d \in SignDicts :
             \E entries \in [1..Len(d) -> SignDictEntries] :
                value = [type |-> "dict",
                         items |-> [i \in 1..Len(d) |->
                                       <<SignDictKeys[d[i]], entries[i]>>]]
    /\ SignFresh
    /\ seen = {}

\* _split_signer_profile_name_owner without the limit of one colon
_split_signer_profile_name_owner_NoColonLimit(signing_profile) ==
    IF StrCount(signing_profile, ":") >= 1
    THEN SubSeq(StrSplit(signing_profile, ":"), 1, 2)
    ELSE <<signing_profile, <<>> >>

_split_signer_profile_name_owner(signing_profile) ==
    LET equals_count == StrCount(signing_profile, ":")
    IN  IF equals_count > 1 THEN <<None, None>>
        ELSE IF equals_count = 1 THEN StrSplit(signing_profile, ":")
        ELSE <<signing_profile, <<>> >>

\* not signer_profile_name, None taken for a name
ProfileNameMissing_OnlyEmpty(name) ==
    name = <<>>

\* not signer_profile_name
ProfileNameMissing(name) ==
    name = None \/ name = <<>>

\* convert up to the loop
SignBegin ==
    /\ pc = "begin"
    /\ result' = <<>>
    /\ IF value = [type |-> "tuple", items |-> << <<>> >>]
       THEN pc' = "returned_empty" /\ value' = value
       ELSE /\ pc' = "loop"
            /\ value' = IF value.type = "str"
                        THEN [type |-> "tuple", items |-> value.items]
                        ELSE value
    /\ UNCHANGED <<shape, idx, error, signVars>>
    /\ UNCHANGED notSignVars

\* for val in value: the pairs of val, or the error of a val without pairs
SignFind ==
    /\ pc = "loop"
    /\ idx <= Len(value.items)
    /\ LET found == FindAll(SigningProfilesOptionType_pattern,
                            NormalizedVal(SignVal(idx)))
       IN  /\ signing_profiles' = found
           /\ IF found = <<>>
              THEN /\ pc' = "failed"
                   /\ error' = NotValidCodeSignConfig
                   /\ seen' = seen \cup {<<"no_pair", NotValidCodeSignConfig>>}
              ELSE /\ pc' = "split"
                   /\ error' = error
                   /\ seen' = seen
    /\ pair' = 1
    /\ UNCHANGED <<value, shape, result, idx, signer_profile_name,
                   signer_profile_owner>>
    /\ UNCHANGED notSignVars

\* for function_name, param_value in signing_profiles: the split
SignSplit ==
    /\ pc = "split"
    /\ LET split == _split_signer_profile_name_owner(
                        _unquote_wrapped_quotes(signing_profiles[pair][2]))
       IN  /\ signer_profile_name' = split[1]
           /\ signer_profile_owner' = split[2]
    /\ pc' = "store"
    /\ UNCHANGED <<value, shape, result, idx, error, signing_profiles, pair, seen>>
    /\ UNCHANGED notSignVars

\* the check of the profile name and the entry of the function
SignStore ==
    /\ pc = "store"
    /\ IF ProfileNameMissing(signer_profile_name)
       THEN /\ pc' = "failed"
            /\ error' = InvalidSignerProfileFormat
            /\ seen' = seen \cup
                  {<<IF signer_profile_name = None THEN "colon_count" ELSE "empty_name",
                     InvalidSignerProfileFormat>>}
            /\ UNCHANGED <<result, idx, pair>>
       ELSE /\ result' = DictSet(result,
                                 _unquote_wrapped_quotes(signing_profiles[pair][1]),
                                 [profile_name |-> signer_profile_name,
                                  profile_owner |-> signer_profile_owner])
            /\ IF pair < Len(signing_profiles)
               THEN pair' = pair + 1 /\ pc' = "split" /\ idx' = idx
               ELSE pair' = pair /\ pc' = "loop" /\ idx' = idx + 1
            /\ UNCHANGED <<error, seen>>
    /\ UNCHANGED <<value, shape, signing_profiles, signer_profile_name,
                   signer_profile_owner>>
    /\ UNCHANGED notSignVars

\* return result
SignReturn ==
    /\ pc = "loop"
    /\ idx > Len(value.items)
    /\ pc' = "done"
    /\ UNCHANGED <<value, shape, result, idx, error, signVars>>
    /\ UNCHANGED notSignVars

\* after a failed call, convert is called with another str
SignAgain ==
    /\ pc = "failed"
    /\ shape' \in ShapesOf(1, MaxAgainChunks, Len(SignChunks))
    /\ value' = [type |-> "str", items |-> ItemsOf(shape', SignChunks)]
    /\ result' = <<>>
    /\ idx' = 1
    /\ pc' = "begin"
    /\ error' = ""
    /\ signing_profiles' = <<>>
    /\ pair' = 1
    /\ signer_profile_name' = <<>>
    /\ signer_profile_owner' = <<>>
    /\ UNCHANGED seen
    /\ UNCHANGED notSignVars

SignNext ==
    \/ SignBegin
    \/ SignFind
    \/ SignSplit
    \/ SignStore
    \/ SignReturn
    \/ SignAgain

SpecSign ==
    SignInit /\ [][SignNext]_vars

\* the profile spec of pair j of the current val: the value, unquoted
ProfileSpec(j) ==
    _unquote_wrapped_quotes(signing_profiles[j][2])

\* the positions of the colons of a text
ColonsOf(spec) ==
    {k \in 1..Len(spec) : spec[k] = ":"}

\* the text before and the text after the one colon of a spec
BeforeColon(spec) ==
    SubSeq(spec, 1, (CHOOSE k \in ColonsOf(spec) : TRUE) - 1)

AfterColon(spec) ==
    SubSeq(spec, (CHOOSE k \in ColonsOf(spec) : TRUE) + 1, Len(spec))

\* every pair of every item of the input, as the pattern finds them
AllSignPairs ==
    UNION {{<<i, j>> : j \in 1..Len(FindAll(SigningProfilesOptionType_pattern,
                                            NormalizedVal(SignVal(i))))} :
           i \in 1..Len(value.items)}

SignSpecOf(p) ==
    _unquote_wrapped_quotes(
        FindAll(SigningProfilesOptionType_pattern,
                NormalizedVal(SignVal(p[1])))[p[2]][2])

\* the pair whose entry was stored last, 0 when the current val has none
LastStored ==
    IF pc = "split" THEN pair - 1
    ELSE IF pc \in {"loop", "done"} /\ idx > 1 THEN Len(signing_profiles)
    ELSE 0

\* C9: for every extracted pair, a profile spec without a colon is split
\* into the spec as name and "" as owner, a spec with one colon into the
\* text before and the text after the colon, and the entry stored for the
\* function holds that name and that owner; a spec with more than one colon
\* makes the call fail, so a call that returns a mapping had no such spec.
C9_SplitByColonCount ==
    /\ pc = "store" =>
          LET spec == ProfileSpec(pair)
              n == Cardinality(ColonsOf(spec))
          IN  /\ n = 0 => /\ signer_profile_name = spec
                          /\ signer_profile_owner = <<>>
              /\ n = 1 => /\ signer_profile_name = BeforeColon(spec)
                          /\ signer_profile_owner = AfterColon(spec)
              /\ n > 1 => /\ signer_profile_name = None
                          /\ ProfileNameMissing(signer_profile_name)
    /\ LastStored > 0 =>
          LET spec == ProfileSpec(LastStored)
              n == Cardinality(ColonsOf(spec))
              entry == DictGet(result,
                               _unquote_wrapped_quotes(signing_profiles[LastStored][1]))
          IN  /\ n <= 1
              /\ entry.profile_name = IF n = 0 THEN spec ELSE BeforeColon(spec)
              /\ entry.profile_owner = IF n = 0 THEN <<>> ELSE AfterColon(spec)
    /\ pc = "done" =>
          \A p \in AllSignPairs : Cardinality(ColonsOf(SignSpecOf(p))) <= 1
    /\ (pc = "failed" /\ error = InvalidSignerProfileFormat) =>
          \/ Cardinality(ColonsOf(ProfileSpec(pair))) > 1
          \/ signer_profile_name = <<>>

\* C9: a val of two pairs, the first with one colon and the second with
\* none, has been stored, each entry with its own name and owner
C9_Witness ==
    /\ pc = "loop"
    /\ idx = 2
    /\ Len(signing_profiles) = 2
    /\ Cardinality(ColonsOf(ProfileSpec(1))) = 1
    /\ Cardinality(ColonsOf(ProfileSpec(2))) = 0
    /\ Len(result) = 2
    /\ result[1][2].profile_owner # <<>>
    /\ result[2][2].profile_owner = <<>>

\* the errors reported so far for a cause
ErrorsOf(cause) ==
    {p[2] : p \in {q \in seen : q[1] = cause}}

SignEnded ==
    pc \in {"returned_empty", "done", "failed"}

\* C11: when the value given is a mapping decoded before, the call ends by
\* returning that same mapping, with no error reported.
C11_MappingReturnedUnchanged ==
    (value.type = "dict" /\ SignEnded) =>
        /\ pc \in {"returned_empty", "done"}
        /\ result = value.items
        /\ error = ""

(***************************************************************************)
(* _unquote_wrapped_quotes, run on its own.  value keeps the text given,   *)
(* result is the local value as the function rewrites it.                  *)
(***************************************************************************)

\* the longest text given
MaxUnquoteLen == 3

\* the characters the texts are written with
UnquoteChars ==
    {DQ, SQ, BS, SP, "a"}

\* the variables _unquote_wrapped_quotes does not use
notUnquoteVars ==
    <<shape, multiple_values_per_key, idx, parsed, tags, fail, error, stageLog,
      addedBy, resultBefore, pattern, groups, signVars>>

UnquoteInit ==
    /\ \E text \in SeqsUpTo(UnquoteChars, MaxUnquoteLen) :
          /\ value = [type |-> "str", items |-> <<text>>]
          /\ result = text
    /\ shape = <<>>
    /\ multiple_values_per_key = FALSE
    /\ idx = 1
    /\ pc = "begin"
    /\ parsed = FALSE
    /\ tags = <<>>
    /\ fail = FALSE
    /\ error = ""
    /\ stageLog = <<>>
    /\ addedBy = {}
    /\ resultBefore = <<>>
    /\ pattern = 0
    /\ groups = <<>>
    /\ SignIdle

\* if value and value[0] == value[-1] and ...: value = value[1:-1]
UnquoteStrip ==
    /\ pc = "begin"
    /\ result' = StripWrappingQuotes(result)
    /\ pc' = "stripped"
    /\ UNCHANGED value
    /\ UNCHANGED notUnquoteVars

\* return value.replace(...).replace(...).replace(...)
UnquoteReturn ==
    /\ pc = "stripped"
    /\ result' = Unescape(result)
    /\ pc' = "done"
    /\ UNCHANGED value
    /\ UNCHANGED notUnquoteVars

UnquoteNext ==
    \/ UnquoteStrip
    \/ UnquoteReturn

SpecUnquote ==
    UnquoteInit /\ [][UnquoteNext]_vars

\* the text given
UnquoteText ==
    value.items[1]

\* the text has two characters or more, and its first and its last
\* character are the same quote
WrappedInQuotes ==
    /\ Len(UnquoteText) >= 2
    /\ UnquoteText[1] = UnquoteText[Len(UnquoteText)]
    /\ UnquoteText[1] \in {DQ, SQ}

\* the text without its first and its last character
WithoutWrapping ==
    [i \in 1..(Len(UnquoteText) - 2) |-> UnquoteText[i + 1]]

\* C12: the first and the last character of the text are stripped exactly
\* when the text has two characters or more and its first and last
\* characters are one and the same quote; any other text, a text of one
\* quote character included, keeps every character, and what is returned is
\* that text after the three escape replacements.
C12_StrippedExactlyWhenWrapped ==
    /\ pc = "stripped" =>
          result = IF WrappedInQuotes THEN WithoutWrapping ELSE UnquoteText
    /\ pc = "done" =>
          result = Unescape(IF WrappedInQuotes THEN WithoutWrapping ELSE UnquoteText)

\* the call of the metadata decoder has returned a mapping whose values
\* are all scalars
MetaReturnedScalars ==
    /\ pc \in {"returned_empty", "done"}
    /\ \A i \in 1..Len(result) : result[i][2].kind \notin {"dict", "list"}

\* the call of the metadata decoder has reported the format error
MetaFormatError ==
    /\ pc = "failed"
    /\ error = "is not in valid format. It must look something like"

\* C13: for every value, the call of the metadata decoder ends in one of
\* two ways, a mapping of keys to scalar values returned or the format
\* error reported; so it does too for a value that is valid JSON and no
\* object.
C13_ReturnsScalarsOrFormatError ==
    MetaEnded => (MetaReturnedScalars \/ MetaFormatError)

====
